---- MODULE Spec2Model ----
(***************************************************************************)
(* The background reminder-evaluation engine of the family calendar: the   *)
(* ReminderWorker web worker (two revisions of it are in the repository),  *)
(* its timers, the commands the host page posts to it and the              *)
(* notifications it posts back; the SyncWorker web worker that syncs the   *)
(* calendar sources; and the parser of reminder labels.                    *)
(*                                                                         *)
(* Time is the worker's Date clock in milliseconds.  A setTimeout timer is *)
(* a record with the time that remains until it is due; the event loop     *)
(* runs its callback at some moment after that, never before.  Each        *)
(* message handler and each timer callback runs to completion (JavaScript  *)
(* run-to-completion), so each is one action.                              *)
(***************************************************************************)
EXTENDS Integers, Sequences, FiniteSets, TLC

----------------------------------------------------------------------------
(* Program constants *)

maxRetries == 5
baseRetryDelay == 1000
checkInterval == 15000
MaxBackoffDelay == 300000
RestartDelay == 5000
TriggerWindow == 120000
PastThreshold == 120000
MsPerMinute == 60000
\* useReminderWorker: the delay of setTimeout(initWorker, ...) after a fatal error
HostRestartDelay == 10000

syncInterval == 300000
syncMaxRetries == 3
syncBaseRetryDelay == 10000
SyncMaxBackoffDelay == 1800000
SyncRestartDelay == 30000

(* Bounds of the model *)

\* the clock is observed at whole minutes 0 .. MaxMinutes
MaxMinutes == 6
\* host RESTART_WORKER commands are accepted while fewer than this many
\* restart cooldown timers are pending
MaxPendingRestarts == 1
\* a sync handler that would leave more than this many sync timers, restart
\* timers and suspended executions of syncCalendars pending, all counted,
\* waits until one of them is gone
MaxSyncPending == 2
\* the host creates a new reminder worker while fewer than this many of the
\* workers it created earlier and did not terminate are left
MaxRetired == 1

----------------------------------------------------------------------------
(* Reminder labels as texts (sequences of characters), so that            *)
(* String.prototype.includes is computed and not assumed.                  *)

MinutesWord == <<"m", "i", "n", "u", "t", "e", "s">>
BeforeWord == <<" ", "b", "e", "f", "o", "r", "e">>

Pat15Minutes == <<"1", "5", " ">> \o MinutesWord
Pat30Minutes == <<"3", "0", " ">> \o MinutesWord
Pat5Minutes == <<"5", " ">> \o MinutesWord
Pat2Minutes == <<"2", " ">> \o MinutesWord
Pat1Minute == <<"1", " ", "m", "i", "n", "u", "t", "e">>
Pat1Hour == <<"1", " ", "h", "o", "u", "r">>
Pat1Day == <<"1", " ", "d", "a", "y">>

Labels ==
    {"5 minutes before", "15 minutes before", "no idea",
     "30 minutes before", "2 minutes before", "1 minute before",
     "1 hour before", "1 day before", "1 minute",
     "15 minutes", "45 minutes before", "12 minutes before",
     "21 minutes before", "10 minutes before", "2 hours before",
     "1 hour 30 minutes before", "1 day 1 hour before", "At time of event"}

\* the characters of a label
Chars(text) ==
    CASE text = "5 minutes before" ->
            <<"5", " ", "m", "i", "n", "u", "t", "e", "s", " ", "b", "e", "f", "o", "r", "e">>
      [] text = "15 minutes before" ->
            <<"1", "5", " ", "m", "i", "n", "u", "t", "e", "s", " ", "b", "e", "f", "o", "r", "e">>
      [] text = "no idea" ->
            <<"n", "o", " ", "i", "d", "e", "a">>
      [] text = "30 minutes before" ->
            <<"3", "0", " ", "m", "i", "n", "u", "t", "e", "s", " ", "b", "e", "f", "o", "r", "e">>
      [] text = "2 minutes before" ->
            <<"2", " ", "m", "i", "n", "u", "t", "e", "s", " ", "b", "e", "f", "o", "r", "e">>
      [] text = "1 minute before" ->
            <<"1", " ", "m", "i", "n", "u", "t", "e", " ", "b", "e", "f", "o", "r", "e">>
      [] text = "1 hour before" ->
            <<"1", " ", "h", "o", "u", "r", " ", "b", "e", "f", "o", "r", "e">>
      [] text = "1 day before" ->
            <<"1", " ", "d", "a", "y", " ", "b", "e", "f", "o", "r", "e">>
      [] text = "1 minute" ->
            <<"1", " ", "m", "i", "n", "u", "t", "e">>
      [] text = "15 minutes" ->
            <<"1", "5", " ", "m", "i", "n", "u", "t", "e", "s">>
      [] text = "45 minutes before" ->
            <<"4", "5", " ", "m", "i", "n", "u", "t", "e", "s", " ", "b", "e", "f", "o", "r", "e">>
      [] text = "12 minutes before" ->
            <<"1", "2", " ", "m", "i", "n", "u", "t", "e", "s", " ", "b", "e", "f", "o", "r", "e">>
      [] text = "21 minutes before" ->
            <<"2", "1", " ", "m", "i", "n", "u", "t", "e", "s", " ", "b", "e", "f", "o", "r", "e">>
      [] text = "10 minutes before" ->
            <<"1", "0", " ", "m", "i", "n", "u", "t", "e", "s", " ", "b", "e", "f", "o", "r", "e">>
      [] text = "2 hours before" ->
            <<"2", " ", "h", "o", "u", "r", "s", " ", "b", "e", "f", "o", "r", "e">>
      [] text = "1 hour 30 minutes before" ->
            <<"1", " ", "h", "o", "u", "r", " ", "3", "0", " ", "m", "i", "n", "u", "t", "e", "s", " ", "b", "e", "f", "o", "r", "e">>
      [] text = "1 day 1 hour before" ->
            <<"1", " ", "d", "a", "y", " ", "1", " ", "h", "o", "u", "r", " ", "b", "e", "f", "o", "r", "e">>
      [] text = "At time of event" ->
            <<"A", "t", " ", "t", "i", "m", "e", " ", "o", "f", " ", "e", "v", "e", "n", "t">>

\* reminderText.includes(pattern)
Includes(text, pat) ==
    \E i \in 1..(Len(text) - Len(pat) + 1) : SubSeq(text, i, i + Len(pat) - 1) = pat

\* parseReminders: the offset in minutes of a label, 0 when unparseable
ParseOffset(text) ==
    LET t == Chars(text) IN
    IF Includes(t, Pat15Minutes) THEN 15
    ELSE IF Includes(t, Pat30Minutes) THEN 30
    ELSE IF Includes(t, Pat5Minutes) THEN 5
    ELSE IF Includes(t, Pat2Minutes) THEN 2
    ELSE IF Includes(t, Pat1Minute) THEN 1
    ELSE IF Includes(t, Pat1Hour) THEN 60
    ELSE IF Includes(t, Pat1Day) THEN 1440
    ELSE 0

\* the earlier revision of the worker (client/public/reminder-worker.js)
\* parses inside its loops: the minutes it subtracts from the start time, 0
\* when reminderTime stays null
InlineOffset(text) ==
    LET t == Chars(text) IN
    IF Includes(t, Pat1Minute) THEN 1
    ELSE IF Includes(t, Pat5Minutes) THEN 5
    ELSE IF Includes(t, Pat15Minutes) THEN 15
    ELSE IF Includes(t, Pat30Minutes) THEN 30
    ELSE IF Includes(t, Pat1Hour) THEN 60
    ELSE IF Includes(t, Pat1Day) THEN 1440
    ELSE 0

\* the offset parseReminders gives each label
ParseTable == [text \in Labels |-> ParseOffset(text)]

\* parseReminders: map to {text, offsetMinutes}, filter offsetMinutes > 0
parseReminders(reminders) ==
    LET mapped == [i \in 1..Len(reminders) |->
                     [text |-> reminders[i], offsetMinutes |-> ParseTable[reminders[i]]]]
    IN SelectSeq(mapped, LAMBDA r : r.offsetMinutes > 0)

\* a slip: the table tried from its shortest pattern up
UtilsOffsetShortestFirst(text) ==
    LET t == Chars(text) IN
    IF Includes(t, Pat1Minute) THEN 1
    ELSE IF Includes(t, Pat2Minutes) THEN 2
    ELSE IF Includes(t, Pat5Minutes) THEN 5
    ELSE IF Includes(t, Pat15Minutes) THEN 15
    ELSE IF Includes(t, Pat30Minutes) THEN 30
    ELSE IF Includes(t, Pat1Hour) THEN 60
    ELSE IF Includes(t, Pat1Day) THEN 1440
    ELSE 0

\* lib/reminder-utils.ts parseReminderOffsets: the offset in minutes of a
\* label, 0 when unparseable
UtilsOffset(text) ==
    LET t == Chars(text) IN
    IF Includes(t, Pat15Minutes) THEN 15
    ELSE IF Includes(t, Pat30Minutes) THEN 30
    ELSE IF Includes(t, Pat5Minutes) THEN 5
    ELSE IF Includes(t, Pat2Minutes) THEN 2
    ELSE IF Includes(t, Pat1Minute) THEN 1
    ELSE IF Includes(t, Pat1Hour) THEN 60
    ELSE IF Includes(t, Pat1Day) THEN 1440
    ELSE 0

\* lib/reminder-utils.ts parseReminderOffsets
parseReminderOffsets(reminders) ==
    LET mapped == [i \in 1..Len(reminders) |->
                     [text |-> reminders[i], offsetMinutes |-> UtilsOffset(reminders[i])]]
    IN SelectSeq(mapped, LAMBDA r : r.offsetMinutes > 0)

\* lib/reminder-utils.ts calculateReminderTime, times in ms
calculateReminderTime(eventStartTime, offsetMinutes) ==
    eventStartTime - offsetMinutes * MsPerMinute

----------------------------------------------------------------------------
(* Events the host can send *)

EvA == [id |-> 1, startTime |-> 6 * MsPerMinute, reminders |-> <<"5 minutes before">>]
EvB == [id |-> 2, startTime |-> 17 * MsPerMinute,
        reminders |-> <<"15 minutes before", "no idea">>]

Payloads == {<<>>, <<EvA>>, <<EvA, EvB>>}

\* EvA after its start time was edited, and EvA with its label entered twice
EvAMoved == [id |-> 1, startTime |-> 7 * MsPerMinute, reminders |-> <<"5 minutes before">>]
EvATwice == [id |-> 1, startTime |-> 6 * MsPerMinute,
             reminders |-> <<"5 minutes before", "5 minutes before">>]

\* an event with a reminder that is not a string (null): reminderText.includes
\* is a TypeError
EvMalformed == [id |-> 3, startTime |-> 6 * MsPerMinute, reminders |-> <<"null">>]

\* the lists the host's event query gives
HostLists == {<<>>, <<EvA>>, <<EvMalformed>>}

\* event lists in which an event is edited, removed or there twice
ListPayloads == {<<>>, <<EvA>>, <<EvAMoved>>, <<EvA, EvA>>, <<EvATwice>>}

----------------------------------------------------------------------------
(* State *)

VARIABLES
    now,                 \* the Date clock, ms
    events,              \* this.events
    checkedReminders,    \* this.checkedReminders
    dismissedReminders,  \* this.dismissedReminders
    retryCount,          \* this.retryCount
    intervalId,          \* this.intervalId
    isRunning,           \* this.isRunning
    timers,              \* pending timers of scheduleNextCheck (handle kept in intervalId)
    cooldowns,           \* pending timers of restart(): the time each has left, in order
    outbox,              \* messages the last handler posted to the host
    emitCount,           \* history: emissions of each key since checkedReminders was last cleared
    armed,               \* history: keys emitted and then un-marked by CLEAR_CHECKED_REMINDERS,
                         \*   kept until the handler after the next tick
    everDismissed,       \* history: keys a DISMISS_REMINDER was applied to
    hostStopped,         \* history: STOP_WORKER was the host's last start/stop command
    failRestart,         \* history: a failure restart happened and no STOP_WORKER since
    updated,             \* history: an UPDATE_EVENTS command has been handled
    backfilled,          \* history: keys marked by the first UPDATE_EVENTS
    failStreak,          \* history: failed ticks since the last success, update or restart
    plainChecked,        \* history: the checkedReminders of an engine that is given the
                         \*   same commands and ticks and has no initializePastReminders
    plainTriggered       \* history: the REMINDERS_TRIGGERED messages that engine posted
                         \*   in the last handler

\* the SyncWorker (client/public/sync-worker.js); its fields are named as in
\* the source, with the prefix sync where the ReminderWorker has the name too
VARIABLES
    calendars,           \* this.calendars
    syncRetryCount,      \* this.retryCount
    syncIntervalId,      \* this.intervalId
    syncIsRunning,       \* this.isRunning
    syncTimers,          \* pending timers of scheduleNextSync
    syncCooldowns,       \* how many timers of restart() are pending
    syncBatches,         \* executions of syncCalendars suspended at `await fetch`
    syncOutbox,          \* messages the last handler posted to the host
    syncThrew,           \* history: an exception was raised in syncCalendars in the last handler
    syncHostStopped,     \* history: STOP_SYNC_WORKER was the host's last start/stop command
    syncStoppedInFlight, \* history: ... and a STOP_SYNC_WORKER since the last
                         \*   START_SYNC_WORKER came while a batch awaited a fetch
    syncFailRestart,     \* history: a failure restart happened and isRunning was true
                         \*   after every handler since
    syncSkipped          \* history: the last handler called syncCalendars, which found
                         \*   the list empty

\* the reminder of which the parsers were last asked the fire time
VARIABLES
    label,               \* reminderText
    startTime,           \* event.startTime
    parsedBy,            \* which of the three parsers have run on it
    computed             \* what each computed: <<>> before it ran and when it rejects the label

\* the host's hook useReminderWorker and the workers it has created
VARIABLES
    hostEvents,          \* the events argument of the hook: the host's current list
    workerRef,           \* workerRef.current: the number of the worker it refers to
    retired,             \* the workers created before that one and not terminated: the
                         \*   number and the worker object of each
    initTimers,          \* pending timers of setTimeout(initWorker, 10000): the time each
                         \*   has left, in order
    deliveredBy          \* history: the workers of which the host's onmessage has
                         \*   received a REMINDERS_TRIGGERED entry with the key

worker == <<events, checkedReminders, dismissedReminders, retryCount, intervalId,
            isRunning, timers, cooldowns, outbox>>
history == <<emitCount, armed, everDismissed, hostStopped, failRestart, updated,
             backfilled, failStreak, plainChecked, plainTriggered>>
syncWorker == <<calendars, syncRetryCount, syncIntervalId, syncIsRunning, syncTimers,
                syncCooldowns, syncBatches, syncOutbox, syncThrew, syncHostStopped,
                syncStoppedInFlight, syncFailRestart, syncSkipped>>
parser == <<label, startTime, parsedBy, computed>>
host == <<hostEvents, workerRef, retired, initTimers, deliveredBy>>
vars == <<now, worker, history, syncWorker, parser, host>>

\* intervalId values that are not the id of a pending timer: null, and the
\* id of a timer whose callback has already run
Null == 0
Expired == -1

Min(a, b) == IF a < b THEN a ELSE b
Max(a, b) == IF a > b THEN a ELSE b

\* the worker object as a record, for the methods below; a handler starts
\* with nothing posted
Cur ==
    [events |-> events, checkedReminders |-> checkedReminders,
     dismissedReminders |-> dismissedReminders, retryCount |-> retryCount,
     intervalId |-> intervalId, isRunning |-> isRunning, timers |-> timers,
     cooldowns |-> cooldowns, outbox |-> <<>>]

----------------------------------------------------------------------------
(* Timers *)

\* the handle setTimeout returns: the smallest id no pending timer uses
NewTimerId(ts) ==
    CHOOSE i \in 1..(Cardinality(ts) + 1) :
        /\ \A t \in ts : t.id # i
        /\ \A j \in 1..(i - 1) : \E t \in ts : t.id = j

\* this.intervalId = setTimeout(() => this.processReminders(), delay)
setCheckTimeout(w, delay) ==
    [w EXCEPT !.timers = @ \cup {[id |-> NewTimerId(w.timers), delay |-> delay,
                                  remaining |-> delay]},
              !.intervalId = NewTimerId(w.timers)]

\* setTimeout(() => this.startProcessing(), delay): the handle is dropped, so
\* these timers are told apart only by the time they have left; a new one
\* has the most left
setStartTimeout(w, delay) == [w EXCEPT !.cooldowns = Append(@, delay)]

\* clearTimeout(id): no effect when no pending timer has this id
clearTimeout(w, id) == [w EXCEPT !.timers = {t \in @ : t.id # id}]

----------------------------------------------------------------------------
(* ReminderWorker methods: each maps the worker record to the worker record *)

\* a slip: backoff that grows linearly
NextDelayLinear(rc) ==
    IF rc > 0 THEN Min(baseRetryDelay * 2 * rc, MaxBackoffDelay) ELSE checkInterval

\* the delay scheduleNextCheck computes
NextDelay(rc) ==
    IF rc > 0 THEN Min(baseRetryDelay * 2^rc, MaxBackoffDelay) ELSE checkInterval

scheduleNextCheck(w) ==
    IF ~w.isRunning THEN w
    ELSE setCheckTimeout(w, NextDelay(w.retryCount))

\* a slip: start without the test of isRunning
startProcessingUnguarded(w) == scheduleNextCheck([w EXCEPT !.isRunning = TRUE])

startProcessing(w) ==
    IF w.isRunning THEN w
    ELSE scheduleNextCheck([w EXCEPT !.isRunning = TRUE])

\* a slip: stop forgets the handle of the pending timer without cancelling it
stopProcessingKeepsTimer(w) == [w EXCEPT !.isRunning = FALSE, !.intervalId = Null]

\* a slip: stop resets the dismissed reminders with the rest
stopProcessingForgets(w) ==
    LET w1 == [w EXCEPT !.isRunning = FALSE, !.dismissedReminders = {}]
    IN IF w1.intervalId # Null
       THEN [clearTimeout(w1, w1.intervalId) EXCEPT !.intervalId = Null]
       ELSE w1

stopProcessing(w) ==
    LET w1 == [w EXCEPT !.isRunning = FALSE]
    IN IF w1.intervalId # Null
       THEN [clearTimeout(w1, w1.intervalId) EXCEPT !.intervalId = Null]
       ELSE w1

\* addMinutes(eventStart, -offsetMinutes).getTime()
ReminderTime(event, reminder) == event.startTime - reminder.offsetMinutes * MsPerMinute

\* a slip: the key without the reminder time
ReminderIdWithoutTime(event, reminder) == <<event.id, reminder.text, 0>>

\* `${event.id}-${reminder.text}-${reminderTime.getTime()}`
ReminderId(event, reminder) == <<event.id, reminder.text, ReminderTime(event, reminder)>>

\* the (event, parsed reminder) pairs in the order the nested forEach visits them
RECURSIVE Slots(_)
Slots(evs) ==
    IF evs = <<>> THEN <<>>
    ELSE LET e == Head(evs)
             rs == e.parsedReminders
         IN [i \in 1..Len(rs) |-> [event |-> e, reminder |-> rs[i]]] \o Slots(Tail(evs))

SlotSet(evs) == {Slots(evs)[i] : i \in 1..Len(Slots(evs))}

KeysOf(evs) == {ReminderId(sl.event, sl.reminder) : sl \in SlotSet(evs)}

\* a slip: the threshold test written with >= where the code has >
PastKeysInclusive(evs) ==
    {ReminderId(sl.event, sl.reminder) :
        sl \in {x \in SlotSet(evs) : now - ReminderTime(x.event, x.reminder) >= PastThreshold}}

\* a slip: every reminder time in the past is marked, the 2 minutes forgotten
PastKeysNoThreshold(evs) ==
    {ReminderId(sl.event, sl.reminder) :
        sl \in {x \in SlotSet(evs) : now - ReminderTime(x.event, x.reminder) > 0}}

\* the keys initializePastReminders marks
PastKeys(evs) ==
    {ReminderId(sl.event, sl.reminder) :
        sl \in {x \in SlotSet(evs) : now - ReminderTime(x.event, x.reminder) > PastThreshold}}

initializePastReminders(w, evs) ==
    [w EXCEPT !.checkedReminders = @ \cup PastKeys(evs)]

\* { ...event, parsedReminders: this.parseReminders(event.reminders || []) }
WithParsedReminders(event) ==
    [id |-> event.id, startTime |-> event.startTime, reminders |-> event.reminders,
     parsedReminders |-> parseReminders(event.reminders)]

eventsWithParsedReminders(newEvents) ==
    [i \in 1..Len(newEvents) |-> WithParsedReminders(newEvents[i])]

\* a slip: the new events are added to the ones the worker has
updateEventsMerging(w, newEvents) ==
    LET parsed == eventsWithParsedReminders(newEvents)
        w1 == IF Len(w.events) = 0 THEN initializePastReminders(w, parsed) ELSE w
    IN [w1 EXCEPT !.events = @ \o parsed, !.retryCount = 0]

\* a slip: the update starts the fired keys afresh
updateEventsForgets(w, newEvents) ==
    LET parsed == eventsWithParsedReminders(newEvents)
        w0 == [w EXCEPT !.checkedReminders = {}]
        w1 == IF Len(w.events) = 0 THEN initializePastReminders(w0, parsed) ELSE w0
    IN [w1 EXCEPT !.events = parsed, !.retryCount = 0]

updateEvents(w, newEvents) ==
    LET parsed == eventsWithParsedReminders(newEvents)
        w1 == IF Len(w.events) = 0 THEN initializePastReminders(w, parsed) ELSE w
    IN [w1 EXCEPT !.events = parsed, !.retryCount = 0]

dismissReminder(w, reminderId) ==
    [w EXCEPT !.dismissedReminders = @ \cup {reminderId},
              !.checkedReminders = @ \cup {reminderId}]

\* a slip: the clear command empties both sets
clearCheckedAndDismissed(w) == [w EXCEPT !.checkedReminders = {}, !.dismissedReminders = {}]

\* worker.checkedReminders.clear()
clearChecked(w) == [w EXCEPT !.checkedReminders = {}]

\* self.postMessage(msg)
post(w, msg) == [w EXCEPT !.outbox = Append(@, msg)]

\* a slip: restart forgets the dismissed reminders as well
restartForgetsDismissed(w) ==
    LET w1 == [w EXCEPT !.retryCount = 0, !.checkedReminders = {}, !.dismissedReminders = {}]
        w2 == post(w1, [type |-> "WORKER_RESTARTED", timestamp |-> now])
    IN setStartTimeout(w2, RestartDelay)

restart(w) ==
    LET w1 == [w EXCEPT !.retryCount = 0, !.checkedReminders = {}]
        w2 == post(w1, [type |-> "WORKER_RESTARTED", timestamp |-> now])
    IN setStartTimeout(w2, RestartDelay)

\* a slip: the far end of the window left out
shouldTriggerExclusive(reminderTime) ==
    now - reminderTime >= 0 /\ now - reminderTime < TriggerWindow

\* whether the tick at the clock's time finds a reminder time in its window
shouldTrigger(reminderTime) ==
    now - reminderTime >= 0 /\ now - reminderTime <= TriggerWindow

\* a slip: the loop tests the keys marked before the tick and not the ones
\* it has added itself
RECURSIVE ScanSnapshot(_, _, _, _)
ScanSnapshot(slots, n, checked, dismissed) ==
    IF n = 0 THEN [checked |-> checked, triggered |-> <<>>]
    ELSE LET before == ScanSnapshot(slots, n - 1, checked, dismissed)
             sl == slots[n]
             reminderTime == ReminderTime(sl.event, sl.reminder)
             reminderId == ReminderId(sl.event, sl.reminder)
         IN IF /\ shouldTrigger(reminderTime)
               /\ reminderId \notin checked
               /\ reminderId \notin dismissed
            THEN [checked |-> before.checked \cup {reminderId},
                  triggered |-> Append(before.triggered,
                                       [event |-> sl.event, reminderText |-> sl.reminder.text,
                                        reminderTime |-> reminderTime, id |-> reminderId])]
            ELSE before

\* a slip: the loop body without the dismissedReminders test
RECURSIVE ScanIgnoringDismissed(_, _, _, _)
ScanIgnoringDismissed(slots, n, checked, dismissed) ==
    IF n = 0 THEN [checked |-> checked, triggered |-> <<>>]
    ELSE LET before == ScanIgnoringDismissed(slots, n - 1, checked, dismissed)
             sl == slots[n]
             reminderTime == ReminderTime(sl.event, sl.reminder)
             reminderId == ReminderId(sl.event, sl.reminder)
         IN IF shouldTrigger(reminderTime) /\ reminderId \notin before.checked
            THEN [checked |-> before.checked \cup {reminderId},
                  triggered |-> Append(before.triggered,
                                       [event |-> sl.event, reminderText |-> sl.reminder.text,
                                        reminderTime |-> reminderTime, id |-> reminderId])]
            ELSE before

\* the body of the nested forEach for the first n pairs: the reminders pushed
\* to triggeredReminders and the keys added to checkedReminders
RECURSIVE Scan(_, _, _, _)
Scan(slots, n, checked, dismissed) ==
    IF n = 0 THEN [checked |-> checked, triggered |-> <<>>]
    ELSE LET before == Scan(slots, n - 1, checked, dismissed)
             sl == slots[n]
             reminderTime == ReminderTime(sl.event, sl.reminder)
             reminderId == ReminderId(sl.event, sl.reminder)
         IN IF /\ shouldTrigger(reminderTime)
               /\ reminderId \notin before.checked
               /\ reminderId \notin dismissed
            THEN [checked |-> before.checked \cup {reminderId},
                  triggered |-> Append(before.triggered,
                                       [event |-> sl.event, reminderText |-> sl.reminder.text,
                                        reminderTime |-> reminderTime, id |-> reminderId])]
            ELSE before

(* An exception inside the try block of processReminders comes from the    *)
(* environment (a malformed element of the payload, a postMessage that     *)
(* throws).  fault says where it is raised:                                *)
(*   "none"       nowhere, the tick succeeds                               *)
(*   "scan"       in the loops, on reaching pair number throwAt            *)
(*   "post"       in postMessage(REMINDERS_TRIGGERED)                      *)
(*   "heartbeat"  in postMessage(WORKER_HEARTBEAT)                         *)
Faults == {"none", "scan", "post", "heartbeat"}

FaultPossible(w, fault, throwAt) ==
    LET slots == Slots(w.events) IN
    CASE fault = "scan" -> throwAt \in 1..Len(slots)
      [] fault = "post" ->
            /\ throwAt = 0
            /\ Scan(slots, Len(slots), w.checkedReminders, w.dismissedReminders).triggered # <<>>
      [] OTHER -> throwAt = 0

\* a slip: the restart test written with > where the code has >=
catchErrorLateRestart(w) ==
    LET rc == Min(w.retryCount + 1, maxRetries)
        w1 == post([w EXCEPT !.retryCount = rc],
                   [type |-> "WORKER_ERROR", retryCount |-> rc,
                    nextRetryIn |-> Min(baseRetryDelay * 2^rc, MaxBackoffDelay)])
    IN IF rc > maxRetries THEN restart(w1) ELSE scheduleNextCheck(w1)

\* a slip: the catch block schedules the next tick however many failures
\* there have been
catchErrorKeepsRetrying(w) ==
    LET rc == Min(w.retryCount + 1, maxRetries)
        w1 == post([w EXCEPT !.retryCount = rc],
                   [type |-> "WORKER_ERROR", retryCount |-> rc,
                    nextRetryIn |-> Min(baseRetryDelay * 2^rc, MaxBackoffDelay)])
    IN scheduleNextCheck(w1)

\* the catch block and what follows it
catchError(w) ==
    LET rc == Min(w.retryCount + 1, maxRetries)
        w1 == post([w EXCEPT !.retryCount = rc],
                   [type |-> "WORKER_ERROR", retryCount |-> rc,
                    nextRetryIn |-> Min(baseRetryDelay * 2^rc, MaxBackoffDelay)])
    IN IF rc >= maxRetries THEN restart(w1) ELSE scheduleNextCheck(w1)

\* a slip: the batch is posted when it is empty too
processRemindersPostingEmpty(w, fault, throwAt) ==
    LET slots == Slots(w.events)
        n == IF fault = "scan" THEN throwAt - 1 ELSE Len(slots)
        sc == Scan(slots, n, w.checkedReminders, w.dismissedReminders)
        w1 == [w EXCEPT !.checkedReminders = sc.checked]
        w2 == IF fault \in {"none", "heartbeat"}
              THEN post(w1, [type |-> "REMINDERS_TRIGGERED", payload |-> sc.triggered])
              ELSE w1
    IN IF fault = "none"
       THEN scheduleNextCheck(
                [post(w2, [type |-> "WORKER_HEARTBEAT", timestamp |-> now,
                           eventsCount |-> Len(w.events),
                           checkedCount |-> Cardinality(sc.checked)])
                 EXCEPT !.retryCount = 0])
       ELSE catchError(w2)

\* a slip: the heartbeat counts the fired keys as they were before the tick
processRemindersStaleCount(w, fault, throwAt) ==
    LET slots == Slots(w.events)
        n == IF fault = "scan" THEN throwAt - 1 ELSE Len(slots)
        sc == Scan(slots, n, w.checkedReminders, w.dismissedReminders)
        w1 == [w EXCEPT !.checkedReminders = sc.checked]
        w2 == IF sc.triggered # <<>> /\ fault \in {"none", "heartbeat"}
              THEN post(w1, [type |-> "REMINDERS_TRIGGERED", payload |-> sc.triggered])
              ELSE w1
    IN IF fault = "none"
       THEN scheduleNextCheck(
                [post(w2, [type |-> "WORKER_HEARTBEAT", timestamp |-> now,
                           eventsCount |-> Len(w.events),
                           checkedCount |-> Cardinality(w.checkedReminders)])
                 EXCEPT !.retryCount = 0])
       ELSE catchError(w2)

processReminders(w, fault, throwAt) ==
    LET slots == Slots(w.events)
        n == IF fault = "scan" THEN throwAt - 1 ELSE Len(slots)
        sc == Scan(slots, n, w.checkedReminders, w.dismissedReminders)
        w1 == [w EXCEPT !.checkedReminders = sc.checked]
        w2 == IF sc.triggered # <<>> /\ fault \in {"none", "heartbeat"}
              THEN post(w1, [type |-> "REMINDERS_TRIGGERED", payload |-> sc.triggered])
              ELSE w1
    IN IF fault = "none"
       THEN scheduleNextCheck(
                [post(w2, [type |-> "WORKER_HEARTBEAT", timestamp |-> now,
                           eventsCount |-> Len(w.events),
                           checkedCount |-> Cardinality(sc.checked)])
                 EXCEPT !.retryCount = 0])
       ELSE catchError(w2)

----------------------------------------------------------------------------
(* SyncWorker (client/public/sync-worker.js).  Its timers carry no clock:   *)
(* a pending timer's callback runs at some later moment, and a fetch is     *)
(* answered at some later moment.                                           *)

Cal1 == [id |-> 1, name |-> "family"]
Cal2 == [id |-> 2, name |-> "school"]
Cal3 == [id |-> 3, name |-> "work"]
\* a null element of the list: reading a property of it is a TypeError
NoCalendar == [id |-> 0, name |-> "null"]
\* UPDATE_CALENDARS without a payload: this.calendars becomes undefined
NoPayload == <<[id |-> 0, name |-> "undefined"]>>

CalendarPayloads == {<<>>, <<Cal1, Cal2, Cal3>>, <<Cal1, NoCalendar>>, NoPayload}

\* how a fetch of a source ends: response.ok, a response that is not ok, or
\* fetch (or response.json()) throwing
FetchOutcomes == {"ok", "http", "throw"}

\* the sync worker object as a record; a handler starts with nothing posted
\* and nothing thrown
SyncCur ==
    [calendars |-> calendars, retryCount |-> syncRetryCount, intervalId |-> syncIntervalId,
     isRunning |-> syncIsRunning, timers |-> syncTimers, cooldowns |-> syncCooldowns,
     batches |-> syncBatches, outbox |-> <<>>, threw |-> FALSE, skipped |-> FALSE]

\* the delay scheduleNextSync computes
SyncDelay(rc) ==
    IF rc > 0 THEN Min(syncBaseRetryDelay * 2^rc, SyncMaxBackoffDelay) ELSE syncInterval

\* this.intervalId = setTimeout(() => this.syncCalendars(), delay)
scheduleNextSync(s) ==
    IF ~s.isRunning THEN s
    ELSE [s EXCEPT !.timers = @ \cup {[id |-> NewTimerId(s.timers),
                                       delay |-> SyncDelay(s.retryCount)]},
                   !.intervalId = NewTimerId(s.timers)]

startSyncing(s) ==
    IF s.isRunning THEN s
    ELSE scheduleNextSync([s EXCEPT !.isRunning = TRUE])

stopSyncing(s) ==
    LET s1 == [s EXCEPT !.isRunning = FALSE]
    IN IF s1.intervalId # Null
       THEN [clearTimeout(s1, s1.intervalId) EXCEPT !.intervalId = Null]
       ELSE s1

updateCalendars(s, payload) == [s EXCEPT !.calendars = payload, !.retryCount = 0]

\* SyncWorker.restart: the handle of its timer is dropped
syncRestart(s) ==
    LET s1 == post([s EXCEPT !.retryCount = 0], [type |-> "SYNC_WORKER_RESTARTED"])
    IN [s1 EXCEPT !.cooldowns = @ + 1]

\* the catch block of syncCalendars and what follows it
syncCatchError(s) ==
    LET rc == Min(s.retryCount + 1, syncMaxRetries)
        s1 == post([s EXCEPT !.retryCount = rc, !.threw = TRUE],
                   [type |-> "SYNC_ERROR", retryCount |-> rc,
                    nextRetryIn |-> Min(syncBaseRetryDelay * 2^rc, SyncMaxBackoffDelay)])
    IN IF rc >= syncMaxRetries THEN syncRestart(s1) ELSE scheduleNextSync(s1)

\* how many entries of results have success = flag
CountSuccess(results, flag) ==
    Cardinality({i \in 1..Len(results) : results[i].success = flag})

\* The suspended executions of syncCalendars have no order among them: the
\* list of them is kept in one order, by the number BatchRank gives each.
BatchRank(b) ==
    LET bit(c) == IF c THEN 1 ELSE 0
        RECURSIVE code(_)
        code(n) == IF n = 0 THEN 0 ELSE 2 * code(n - 1) + bit(b.results[n].success)
    IN (((bit(b.origin = "trigger") * 2 + bit(Len(b.list) = 3)) * 4 + b.pos) * 8)
          + code(Len(b.results))

\* execution b is suspended with the ones of batches
Suspend(batches, b) ==
    LET before == SelectSeq(batches, LAMBDA x : BatchRank(x) <= BatchRank(b))
        after == SelectSeq(batches, LAMBDA x : BatchRank(x) > BatchRank(b))
    IN before \o <<b>> \o after

\* a slip: the loop reads this.calendars at each iteration
RunBatchLiveList(s, b) ==
    LET live == [b EXCEPT !.list = s.calendars]
    IN IF live.pos > Len(live.list)
       THEN scheduleNextSync(
                [post(s, [type |-> "SYNC_COMPLETED", results |-> live.results,
                          successCount |-> CountSuccess(live.results, TRUE),
                          errorCount |-> CountSuccess(live.results, FALSE)])
                 EXCEPT !.retryCount = 0])
       ELSE IF live.list[live.pos] = NoCalendar
       THEN syncCatchError(s)
       ELSE [s EXCEPT !.batches = Suspend(@, live)]

\* a slip: the fetches of all the sources issued together, the batch waiting
\* for the last of them
RunBatchAllAtOnce(s, b) ==
    IF b.pos > Len(b.list)
    THEN scheduleNextSync(
             [post(s, [type |-> "SYNC_COMPLETED", results |-> b.results,
                       successCount |-> CountSuccess(b.results, TRUE),
                       errorCount |-> CountSuccess(b.results, FALSE)])
              EXCEPT !.retryCount = 0])
    ELSE IF b.list[b.pos] = NoCalendar
    THEN syncCatchError(s)
    ELSE [s EXCEPT !.batches = Suspend(@, [b EXCEPT !.pos = Len(b.list)])]

\* a slip: the results posted from inside the loop, after each source
RunBatchPostingEach(s, b) ==
    LET done == [type |-> "SYNC_COMPLETED", results |-> b.results,
                 successCount |-> CountSuccess(b.results, TRUE),
                 errorCount |-> CountSuccess(b.results, FALSE)]
    IN IF b.pos > Len(b.list)
       THEN scheduleNextSync([post(s, done) EXCEPT !.retryCount = 0])
       ELSE IF b.list[b.pos] = NoCalendar
       THEN syncCatchError(s)
       ELSE IF b.pos > 1
       THEN [post(s, done) EXCEPT !.batches = Suspend(@, b)]
       ELSE [s EXCEPT !.batches = Suspend(@, b)]

\* syncCalendars from the top of a loop iteration of batch b up to the next
\* await or to its end.  b.list is the array the for-of iterates (the one
\* this.calendars held when the batch began), b.pos the element it is at.
RunBatch(s, b) ==
    IF b.pos > Len(b.list)
    THEN scheduleNextSync(
             [post(s, [type |-> "SYNC_COMPLETED", results |-> b.results,
                       successCount |-> CountSuccess(b.results, TRUE),
                       errorCount |-> CountSuccess(b.results, FALSE)])
              EXCEPT !.retryCount = 0])
    ELSE IF b.list[b.pos] = NoCalendar
    THEN syncCatchError(s)
    ELSE [s EXCEPT !.batches = Suspend(@, b)]

\* a slip: with no calendars syncCalendars returns and nothing is scheduled
syncCalendarsEmptyReturns(s, origin) ==
    IF s.calendars = NoPayload
    THEN [s EXCEPT !.threw = TRUE]
    ELSE IF Len(s.calendars) = 0
    THEN [s EXCEPT !.skipped = TRUE]
    ELSE RunBatch(s, [list |-> s.calendars, pos |-> 1, results |-> <<>>, origin |-> origin])

\* syncCalendars from its call to its first await or its end; origin tells the
\* timer's calls from the TRIGGER_IMMEDIATE_SYNC ones
syncCalendars(s, origin) ==
    IF s.calendars = NoPayload
    THEN [s EXCEPT !.threw = TRUE]
    ELSE IF Len(s.calendars) = 0
    THEN scheduleNextSync([s EXCEPT !.skipped = TRUE])
    ELSE RunBatch(s, [list |-> s.calendars, pos |-> 1, results |-> <<>>, origin |-> origin])

\* a slip: a source that fails ends the batch in the catch block of the batch
resumeWithoutIsolation(s, i, outcome) ==
    LET b == s.batches[i]
        s1 == [s EXCEPT !.batches = SubSeq(@, 1, i - 1) \o SubSeq(@, i + 1, Len(@))]
        entry == [calendar |-> b.list[b.pos].name, success |-> outcome = "ok"]
    IN IF outcome = "ok"
       THEN RunBatch(s1, [b EXCEPT !.results = Append(@, entry), !.pos = @ + 1])
       ELSE syncCatchError(s1)

\* the i-th suspended batch goes on after its fetch has ended with outcome
resume(s, i, outcome) ==
    LET b == s.batches[i]
        s1 == [s EXCEPT !.batches = SubSeq(@, 1, i - 1) \o SubSeq(@, i + 1, Len(@))]
        entry == [calendar |-> b.list[b.pos].name, success |-> outcome = "ok"]
    IN RunBatch(s1, [b EXCEPT !.results = Append(@, entry), !.pos = @ + 1])

\* new SyncWorker(): the constructor calls startSyncing()
SyncConstructed ==
    startSyncing([calendars |-> <<>>, retryCount |-> 0, intervalId |-> Null,
                  isRunning |-> FALSE, timers |-> {}, cooldowns |-> 0, batches |-> <<>>,
                  outbox |-> <<>>, threw |-> FALSE, skipped |-> FALSE])

----------------------------------------------------------------------------
(* What a handler posted *)

TriggeredMsgs(ob) == {i \in 1..Len(ob) : ob[i].type = "REMINDERS_TRIGGERED"}

\* the keys of the reminders in the REMINDERS_TRIGGERED messages of ob
Emitted(ob) ==
    UNION {{ob[i].payload[j].id : j \in 1..Len(ob[i].payload)} : i \in TriggeredMsgs(ob)}

\* how many entries of those messages carry key k
Occurrences(ob, k) ==
    Cardinality(UNION {{<<i, j>> : j \in {x \in 1..Len(ob[i].payload) : ob[i].payload[x].id = k}} :
                       i \in TriggeredMsgs(ob)})

Posted(ob, type) == \E i \in 1..Len(ob) : ob[i].type = type

----------------------------------------------------------------------------
(* The reminder time each revision computes for one reminder of one event *)

Parsers == {"utils", "worker", "inline"}

\* lib/reminder-utils.ts: parseReminderOffsets, then calculateReminderTime
ParsedByUtils(text, start) ==
    LET rs == parseReminderOffsets(<<text>>)
    IN [i \in 1..Len(rs) |->
          [text |-> rs[i].text, offsetMinutes |-> rs[i].offsetMinutes,
           reminderTime |-> calculateReminderTime(start, rs[i].offsetMinutes)]]

\* the worker: updateEvents parses, processReminders computes reminderTime
ParsedByWorker(text, start) ==
    LET e == WithParsedReminders([id |-> 1, startTime |-> start, reminders |-> <<text>>])
        rs == e.parsedReminders
    IN [i \in 1..Len(rs) |->
          [text |-> rs[i].text, offsetMinutes |-> rs[i].offsetMinutes,
           reminderTime |-> ReminderTime(e, rs[i])]]

\* the earlier revision of the worker: processReminders parses in its loop and
\* skips the reminder when reminderTime stays null
ParsedInline(text, start) ==
    IF InlineOffset(text) > 0
    THEN <<[text |-> text, offsetMinutes |-> InlineOffset(text),
            reminderTime |-> start - InlineOffset(text) * MsPerMinute]>>
    ELSE <<>>

ParsedBy(p, text, start) ==
    CASE p = "utils" -> ParsedByUtils(text, start)
      [] p = "worker" -> ParsedByWorker(text, start)
      [] p = "inline" -> ParsedInline(text, start)

\* event start times the parsers are asked about
StartTimes == {17 * MsPerMinute, 1500 * MsPerMinute}

----------------------------------------------------------------------------
(* Initial state: the worker script has run `new ReminderWorker()`, whose  *)
(* constructor calls startProcessing().                                    *)

\* the keys of the reminders of a list of events with parsed reminders
EventKeys(evs) ==
    UNION {{ReminderId(evs[i], evs[i].parsedReminders[j]) :
               j \in 1..Len(evs[i].parsedReminders)} : i \in 1..Len(evs)}

\* every key an event list of Payloads gives
AllKeys == UNION {EventKeys(eventsWithParsedReminders(p)) : p \in Payloads}

\* every key an event list of ListPayloads gives
ListKeys == UNION {EventKeys(eventsWithParsedReminders(p)) : p \in ListPayloads}

\* the keys the history is kept of
KnownKeys == AllKeys \cup ListKeys

Constructed ==
    startProcessing([events |-> <<>>, checkedReminders |-> {}, dismissedReminders |-> {},
                     retryCount |-> 0, intervalId |-> Null, isRunning |-> FALSE,
                     timers |-> {}, cooldowns |-> <<>>, outbox |-> <<>>])

Init ==
    /\ now = 0
    /\ events = Constructed.events
    /\ checkedReminders = Constructed.checkedReminders
    /\ dismissedReminders = Constructed.dismissedReminders
    /\ retryCount = Constructed.retryCount
    /\ intervalId = Constructed.intervalId
    /\ isRunning = Constructed.isRunning
    /\ timers = Constructed.timers
    /\ cooldowns = Constructed.cooldowns
    /\ outbox = Constructed.outbox
    /\ emitCount = [k \in KnownKeys |-> 0]
    /\ armed = {}
    /\ everDismissed = {}
    /\ hostStopped = FALSE
    /\ failRestart = FALSE
    /\ updated = FALSE
    /\ backfilled = {}
    /\ failStreak = 0
    /\ plainChecked = Constructed.checkedReminders
    /\ plainTriggered = <<>>
    /\ calendars = SyncConstructed.calendars
    /\ syncRetryCount = SyncConstructed.retryCount
    /\ syncIntervalId = SyncConstructed.intervalId
    /\ syncIsRunning = SyncConstructed.isRunning
    /\ syncTimers = SyncConstructed.timers
    /\ syncCooldowns = SyncConstructed.cooldowns
    /\ syncBatches = SyncConstructed.batches
    /\ syncOutbox = SyncConstructed.outbox
    /\ syncThrew = SyncConstructed.threw
    /\ syncHostStopped = FALSE
    /\ syncStoppedInFlight = FALSE
    /\ syncFailRestart = FALSE
    /\ syncSkipped = SyncConstructed.skipped
    /\ hostEvents = <<>>
    /\ workerRef = 1
    /\ retired = <<>>
    /\ initTimers = <<>>
    /\ deliveredBy = [k \in KnownKeys |-> {}]
    /\ label = "no idea"
    /\ startTime = 0
    /\ parsedBy = {}
    /\ computed = [p \in Parsers |-> <<>>]

----------------------------------------------------------------------------
(* Actions *)

\* the worker's fields after a handler, and the history that follows from
\* what the handler posted
Commit(w) ==
    /\ events' = w.events
    /\ checkedReminders' = w.checkedReminders
    /\ dismissedReminders' = w.dismissedReminders
    /\ retryCount' = w.retryCount
    /\ intervalId' = w.intervalId
    /\ isRunning' = w.isRunning
    /\ timers' = w.timers
    /\ cooldowns' = w.cooldowns
    /\ outbox' = w.outbox
    /\ UNCHANGED <<now, syncWorker, parser, host>>

\* the REMINDERS_TRIGGERED messages of ob
Triggered(ob) == SelectSeq(ob, LAMBDA m : m.type = "REMINDERS_TRIGGERED")

\* the engine without initializePastReminders after the same handler: p is
\* its worker record
Plain(p) ==
    /\ plainChecked' = p.checkedReminders
    /\ plainTriggered' = Triggered(p.outbox)

\* the worker record of that engine as a handler begins
PlainCur == [Cur EXCEPT !.checkedReminders = plainChecked]

\* emissions are counted from the last time checkedReminders was cleared
CountEmissions(w, cleared) ==
    emitCount' =
        IF cleared \/ Posted(w.outbox, "WORKER_RESTARTED")
        THEN [k \in KnownKeys |-> 0]
        ELSE [k \in KnownKeys |-> Min(emitCount[k] + Occurrences(w.outbox, k), 2)]

\* a tick was the last handler to run
Ticked == Posted(outbox, "WORKER_HEARTBEAT") \/ Posted(outbox, "WORKER_ERROR")

\* the un-marked keys are remembered up to the first tick after the clear
ArmedAfter == IF Ticked THEN {} ELSE armed

\* the clock moves on by a minute
Advance ==
    /\ now < MaxMinutes * MsPerMinute
    /\ now' = now + MsPerMinute
    /\ timers' = {[t EXCEPT !.remaining = Max(0, @ - MsPerMinute)] : t \in timers}
    /\ cooldowns' = [i \in 1..Len(cooldowns) |-> Max(0, cooldowns[i] - MsPerMinute)]
    /\ outbox' = <<>>
    /\ armed' = ArmedAfter
    /\ UNCHANGED <<events, checkedReminders, dismissedReminders, retryCount, intervalId,
                   isRunning>>
    /\ UNCHANGED <<emitCount, everDismissed, hostStopped, failRestart, updated, backfilled,
                   failStreak>>
    /\ Plain(PlainCur)
    /\ retired' = [i \in 1..Len(retired) |->
                      [retired[i] EXCEPT
                          !.w.timers = {[t EXCEPT !.remaining = Max(0, @ - MsPerMinute)] : t \in @},
                          !.w.cooldowns = [j \in 1..Len(@) |-> Max(0, @[j] - MsPerMinute)]]]
    /\ initTimers' = [i \in 1..Len(initTimers) |-> Max(0, initTimers[i] - MsPerMinute)]
    /\ UNCHANGED <<hostEvents, workerRef, deliveredBy>>
    /\ UNCHANGED <<syncWorker, parser>>

\* the callback of check timer t starts: the timer is no longer pending
Fired(w, t) ==
    [w EXCEPT !.timers = @ \ {t},
              !.intervalId = IF @ = t.id THEN Expired ELSE @]

\* the tick: the callback scheduleNextCheck set runs processReminders
Tick(t, fault, throwAt) ==
    LET w == processReminders(Fired(Cur, t), fault, throwAt)
        restarted == Posted(w.outbox, "WORKER_RESTARTED")
    IN /\ t.remaining = 0
       /\ FaultPossible(Cur, fault, throwAt)
       /\ Commit(w)
       /\ CountEmissions(w, FALSE)
       /\ failStreak' = IF fault = "none" \/ restarted THEN 0 ELSE failStreak + 1
       /\ failRestart' = (failRestart \/ restarted)
       /\ armed' = ArmedAfter
       /\ Plain(processReminders(Fired(PlainCur, t), fault, throwAt))
       /\ UNCHANGED <<everDismissed, hostStopped, updated, backfilled>>

\* the callback restart() set runs startProcessing after the cooldown
Cooldown ==
    /\ cooldowns # <<>>
    /\ Head(cooldowns) = 0
    /\ Commit(startProcessing([Cur EXCEPT !.cooldowns = Tail(@)]))
    /\ armed' = ArmedAfter
    /\ Plain(startProcessing([PlainCur EXCEPT !.cooldowns = Tail(@)]))
    /\ UNCHANGED <<emitCount, everDismissed, hostStopped, failRestart, updated, backfilled,
                   failStreak>>

\* onmessage UPDATE_EVENTS
UpdateEvents(payload) ==
    LET w == updateEvents(Cur, payload)
    IN /\ Commit(w)
       /\ updated' = TRUE
       /\ backfilled' = IF updated THEN backfilled
                        ELSE w.checkedReminders \ checkedReminders
       /\ failStreak' = 0
       /\ armed' = ArmedAfter
       /\ Plain([PlainCur EXCEPT !.events = w.events, !.retryCount = 0])
       /\ UNCHANGED <<emitCount, everDismissed, hostStopped, failRestart>>

\* onmessage START_WORKER
StartWorker ==
    /\ Commit(startProcessing(Cur))
    /\ hostStopped' = FALSE
    /\ armed' = ArmedAfter
    /\ Plain(startProcessing(PlainCur))
    /\ UNCHANGED <<emitCount, everDismissed, failRestart, updated, backfilled, failStreak>>

\* onmessage STOP_WORKER
StopWorker ==
    /\ Commit(stopProcessing(Cur))
    /\ hostStopped' = TRUE
    /\ failRestart' = FALSE
    /\ armed' = ArmedAfter
    /\ Plain(stopProcessing(PlainCur))
    /\ UNCHANGED <<emitCount, everDismissed, updated, backfilled, failStreak>>

\* onmessage RESTART_WORKER
RestartWorker ==
    LET w == restart(Cur)
    IN /\ Len(cooldowns) < MaxPendingRestarts
       /\ Commit(w)
       /\ CountEmissions(w, FALSE)
       /\ failStreak' = 0
       /\ armed' = ArmedAfter
       /\ Plain(restart(PlainCur))
       /\ UNCHANGED <<everDismissed, hostStopped, failRestart, updated, backfilled>>

\* onmessage CLEAR_CHECKED_REMINDERS
ClearCheckedReminders ==
    LET w == clearChecked(Cur)
    IN /\ Commit(w)
       /\ CountEmissions(w, TRUE)
       /\ armed' = ArmedAfter \cup {k \in KnownKeys : emitCount[k] > 0}
       /\ Plain(clearChecked(PlainCur))
       /\ UNCHANGED <<everDismissed, hostStopped, failRestart, updated, backfilled,
                      failStreak>>

\* onmessage DISMISS_REMINDER
DismissReminder(reminderId) ==
    /\ Commit(dismissReminder(Cur, reminderId))
    /\ everDismissed' = everDismissed \cup {reminderId}
    /\ armed' = ArmedAfter
    /\ Plain(dismissReminder(PlainCur, reminderId))
    /\ UNCHANGED <<emitCount, hostStopped, failRestart, updated, backfilled, failStreak>>

Next ==
    \/ Advance
    \/ \E t \in timers, fault \in Faults, throwAt \in 0..Len(Slots(events)) :
          Tick(t, fault, throwAt)
    \/ Cooldown
    \/ \E payload \in Payloads : UpdateEvents(payload)
    \/ StartWorker
    \/ StopWorker
    \/ RestartWorker
    \/ ClearCheckedReminders
    \/ \E reminderId \in AllKeys : DismissReminder(reminderId)

Spec == Init /\ [][Next]_vars

----------------------------------------------------------------------------
(* Actions of the SyncWorker *)

\* the sync worker's fields after a handler
SyncCommit(s) ==
    /\ Cardinality(s.timers) + s.cooldowns + Len(s.batches) <= MaxSyncPending
    /\ calendars' = s.calendars
    /\ syncRetryCount' = s.retryCount
    /\ syncIntervalId' = s.intervalId
    /\ syncIsRunning' = s.isRunning
    /\ syncTimers' = s.timers
    /\ syncCooldowns' = s.cooldowns
    /\ syncBatches' = s.batches
    /\ syncOutbox' = s.outbox
    /\ syncThrew' = s.threw
    /\ syncSkipped' = s.skipped
    /\ syncFailRestart' =
          \/ Posted(s.outbox, "SYNC_ERROR") /\ Posted(s.outbox, "SYNC_WORKER_RESTARTED")
          \/ syncFailRestart /\ s.isRunning
    /\ UNCHANGED <<now, worker, history, parser, host>>

\* the tick: the callback scheduleNextSync set calls syncCalendars
SyncTick(t) ==
    /\ t \in syncTimers
    /\ SyncCommit(syncCalendars(Fired(SyncCur, t), "timer"))
    /\ UNCHANGED <<syncHostStopped, syncStoppedInFlight>>

\* the fetch the i-th suspended batch awaits ends
SyncFetched(i, outcome) ==
    /\ i \in 1..Len(syncBatches)
    /\ SyncCommit(resume(SyncCur, i, outcome))
    /\ UNCHANGED <<syncHostStopped, syncStoppedInFlight>>

\* the callback restart() set calls startSyncing after the cooldown
SyncCooldown ==
    /\ syncCooldowns > 0
    /\ SyncCommit(startSyncing([SyncCur EXCEPT !.cooldowns = @ - 1]))
    /\ UNCHANGED <<syncHostStopped, syncStoppedInFlight>>

\* onmessage UPDATE_CALENDARS
UpdateCalendars(payload) ==
    /\ SyncCommit(updateCalendars(SyncCur, payload))
    /\ UNCHANGED <<syncHostStopped, syncStoppedInFlight>>

\* onmessage START_SYNC_WORKER
StartSyncWorker ==
    /\ SyncCommit(startSyncing(SyncCur))
    /\ syncHostStopped' = FALSE
    /\ syncStoppedInFlight' = FALSE

\* onmessage STOP_SYNC_WORKER
StopSyncWorker ==
    /\ SyncCommit(stopSyncing(SyncCur))
    /\ syncHostStopped' = TRUE
    /\ syncStoppedInFlight' = (syncStoppedInFlight \/ syncBatches # <<>>)

\* onmessage RESTART_SYNC_WORKER
RestartSyncWorker ==
    /\ SyncCommit(syncRestart(SyncCur))
    /\ UNCHANGED <<syncHostStopped, syncStoppedInFlight>>

\* onmessage TRIGGER_IMMEDIATE_SYNC
TriggerImmediateSync ==
    /\ SyncCommit(syncCalendars(SyncCur, "trigger"))
    /\ UNCHANGED <<syncHostStopped, syncStoppedInFlight>>

SyncNext ==
    \/ \E t \in syncTimers : SyncTick(t)
    \/ \E i \in 1..MaxSyncPending, outcome \in FetchOutcomes : SyncFetched(i, outcome)
    \/ SyncCooldown
    \/ \E payload \in CalendarPayloads : UpdateCalendars(payload)
    \/ StartSyncWorker
    \/ StopSyncWorker
    \/ RestartSyncWorker
    \/ TriggerImmediateSync

SyncSpec == Init /\ [][SyncNext]_vars

----------------------------------------------------------------------------
(* The parsers asked about one reminder *)

\* a reminder text and an event start time are chosen
ChooseReminder(text, start) ==
    /\ label' = text
    /\ startTime' = start
    /\ parsedBy' = {}
    /\ computed' = [p \in Parsers |-> <<>>]
    /\ UNCHANGED <<now, worker, history, syncWorker, host>>

\* parser p computes the reminder time
RunParser(p) ==
    /\ p \notin parsedBy
    /\ parsedBy' = parsedBy \cup {p}
    /\ computed' = [computed EXCEPT ![p] = ParsedBy(p, label, startTime)]
    /\ UNCHANGED <<label, startTime, now, worker, history, syncWorker, host>>

ParseNext ==
    \/ \E text \in Labels, start \in StartTimes : ChooseReminder(text, start)
    \/ \E p \in Parsers : RunParser(p)

ParseSpec == Init /\ [][ParseNext]_vars

----------------------------------------------------------------------------
(* The two engines side by side, the host sending them start, stop and      *)
(* restart commands and nothing to work on: the reminder engine has no      *)
(* events and the sync scheduler no calendars.                              *)

StartNext ==
    \/ Advance
    \/ \E t \in timers, fault \in {"none", "heartbeat"} : Tick(t, fault, 0)
    \/ Cooldown
    \/ StartWorker
    \/ StopWorker
    \/ RestartWorker
    \/ \E t \in syncTimers : SyncTick(t)
    \/ SyncCooldown
    \/ StartSyncWorker
    \/ StopSyncWorker
    \/ RestartSyncWorker

StartSpec == Init /\ [][StartNext]_vars

----------------------------------------------------------------------------
(* The reminder engine ticking while the host edits the event list: events  *)
(* are removed, an event's start time is changed, an event or a label is    *)
(* there twice; the host dismisses and clears, and sends no stop, start or  *)
(* restart.                                                                 *)

ListNext ==
    \/ Advance
    \/ \E t \in timers, fault \in {"none", "post", "heartbeat"} : Tick(t, fault, 0)
    \/ \E payload \in ListPayloads : UpdateEvents(payload)
    \/ ClearCheckedReminders
    \/ \E reminderId \in ListKeys : DismissReminder(reminderId)

ListSpec == Init /\ [][ListNext]_vars

----------------------------------------------------------------------------
(* The hook useReminderWorker with the workers it creates.  A command the   *)
(* hook posts is handled by the worker at once, and so is a message of a    *)
(* worker by the onmessage handler the hook gave it.  The hook terminates a *)
(* worker only when it unmounts, which is left out.                         *)

\* newEvents has an event that makes updateEvents throw
Malformed(newEvents) == \E i \in 1..Len(newEvents) : newEvents[i] = EvMalformed

\* the host's onmessage receives what worker number n posted
Delivered(ob, n) ==
    deliveredBy' = [k \in KnownKeys |->
                       IF k \in Emitted(ob) THEN deliveredBy[k] \cup {n} ELSE deliveredBy[k]]

\* the fields of the worker workerRef.current refers to, after its handler
HostCommit(w) ==
    /\ events' = w.events
    /\ checkedReminders' = w.checkedReminders
    /\ dismissedReminders' = w.dismissedReminders
    /\ retryCount' = w.retryCount
    /\ intervalId' = w.intervalId
    /\ isRunning' = w.isRunning
    /\ timers' = w.timers
    /\ cooldowns' = w.cooldowns
    /\ outbox' = w.outbox
    /\ UNCHANGED <<now, history, syncWorker, parser>>

\* the effect on [events]: the hook's list has become newEvents.  It is posted
\* as UPDATE_EVENTS when it is not empty; a list that makes updateEvents
\* throw leaves the worker as it is, self.onerror posts WORKER_FATAL_ERROR
\* and the hook sets the timer of initWorker.
HostSetEvents(newEvents) ==
    /\ newEvents # hostEvents
    /\ hostEvents' = newEvents
    /\ IF workerRef # Null /\ Len(newEvents) > 0
       THEN IF Malformed(newEvents)
            THEN /\ Len(initTimers) + Len(retired) < MaxRetired
                 /\ HostCommit(post(Cur, [type |-> "WORKER_FATAL_ERROR"]))
                 /\ initTimers' = Append(initTimers, HostRestartDelay)
            ELSE /\ HostCommit(updateEvents(Cur, newEvents))
                 /\ UNCHANGED initTimers
       ELSE UNCHANGED <<now, worker, history, syncWorker, parser, initTimers>>
    /\ UNCHANGED <<workerRef, retired, deliveredBy>>

\* the timer of initWorker fires: workerRef.current = new Worker(...), then
\* START_WORKER, which the constructor has made a no-op.  The worker the
\* hook referred to is not terminated.
HostInitWorker ==
    /\ initTimers # <<>>
    /\ Head(initTimers) = 0
    /\ initTimers' = Tail(initTimers)
    /\ retired' = Append(retired, [id |-> workerRef, w |-> Cur])
    /\ workerRef' = workerRef + 1
    /\ HostCommit(startProcessing(Constructed))
    /\ UNCHANGED <<hostEvents, deliveredBy>>

\* the tick of the worker the hook refers to
HostTick(t) ==
    LET w == processReminders(Fired(Cur, t), "none", 0)
    IN /\ t.remaining = 0
       /\ HostCommit(w)
       /\ Delivered(w.outbox, workerRef)
       /\ UNCHANGED <<hostEvents, workerRef, retired, initTimers>>

\* the tick of a worker the hook no longer refers to
RetiredTick(i, t) ==
    LET w == processReminders(Fired([retired[i].w EXCEPT !.outbox = <<>>], t), "none", 0)
    IN /\ i \in 1..Len(retired)
       /\ t \in retired[i].w.timers
       /\ t.remaining = 0
       /\ retired' = [retired EXCEPT ![i].w = w]
       /\ Delivered(w.outbox, retired[i].id)
       /\ UNCHANGED <<now, worker, history, syncWorker, parser>>
       /\ UNCHANGED <<hostEvents, workerRef, initTimers>>

HostNext ==
    \/ Advance
    \/ \E t \in timers : HostTick(t)
    \/ \E i \in 1..MaxRetired : \E t \in UNION {retired[j].w.timers : j \in 1..Len(retired)} :
          RetiredTick(i, t)
    \/ \E newEvents \in HostLists : HostSetEvents(newEvents)
    \/ HostInitWorker

HostSpec == Init /\ [][HostNext]_vars

----------------------------------------------------------------------------
(* Properties *)

\* the fire time of a key
FireTime(k) == k[3]

\* the tick at the clock's time finds key k in its due window
Due(k) == shouldTrigger(FireTime(k))

\* C1: while checkedReminders is not cleared (no clearFired, no restart), a
\* reminder of the working set is emitted exactly once: never twice, and
\* once a tick has succeeded while the reminder is in its due window (and it
\* is not dismissed) it has been emitted.
C1_FiresExactlyOnce ==
    /\ \A k \in AllKeys : emitCount[k] <= 1
    /\ Posted(outbox, "WORKER_HEARTBEAT") =>
          \A k \in KeysOf(events) : (Due(k) /\ k \notin everDismissed) => emitCount[k] = 1

\* C2: a key that was dismissed is in no REMINDERS_TRIGGERED message posted
\* afterwards, whatever commands, ticks and restarts came in between.
C2_DismissPermanent == Emitted(outbox) \cap everDismissed = {}

\* a tick has just succeeded with a dismissed key in the working set, due, and
\* no longer in checkedReminders (they were cleared after the dismiss)
C2_Witness ==
    /\ Posted(outbox, "WORKER_HEARTBEAT")
    /\ \E k \in everDismissed \cap KeysOf(events) : Due(k) /\ k \notin checkedReminders

\* C3: after a restart caused by the failures reaching the maximum, and with
\* no stop command since, once no cooldown is pending any more the engine is
\* running-idle: running, with its next tick scheduled.
C3_ResumesAfterCooldown ==
    (failRestart /\ cooldowns = <<>>) => (isRunning /\ timers # {})

\* C4: after the host's stop command no tick runs until the host's start
\* command.
C4_NoTickWhileStopped == Ticked => ~hostStopped

\* C5: a restart (by failures or by the host's command) empties
\* checkedReminders and leaves dismissedReminders as it was.
C5_RestartKeepsDismissed ==
    [][Posted(outbox', "WORKER_RESTARTED") =>
          /\ checkedReminders' = {}
          /\ dismissedReminders' = dismissedReminders]_vars

\* a failure restart has just happened with a dismissed key
C5_Witness ==
    /\ Posted(outbox, "WORKER_RESTARTED")
    /\ Posted(outbox, "WORKER_ERROR")
    /\ dismissedReminders # {}

\* C6: a failed tick restarts the engine exactly when it is the fifth failed
\* tick in a row (no successful tick, update or restart in between); the
\* restart resets retryCount, clears checkedReminders, posts one
\* WORKER_RESTARTED and sets the 5 s cooldown timer and no tick timer; a
\* failed tick that is not the fifth leaves retryCount at the streak.
C6_RestartExactlyAtMax ==
    [][Posted(outbox', "WORKER_ERROR") =>
          LET restarted == Posted(outbox', "WORKER_RESTARTED") IN
          /\ restarted <=> (failStreak + 1 = maxRetries)
          /\ restarted =>
                /\ retryCount' = 0
                /\ checkedReminders' = {}
                /\ Cardinality({i \in 1..Len(outbox') : outbox'[i].type = "WORKER_RESTARTED"}) = 1
                /\ cooldowns' = Append(cooldowns, RestartDelay)
                /\ timers' \subseteq timers
          /\ ~restarted =>
                /\ retryCount' = failStreak + 1
                /\ cooldowns' = cooldowns]_vars

\* the fifth failed tick in a row has just restarted the engine
C6_Witness ==
    Posted(outbox, "WORKER_ERROR") /\ Posted(outbox, "WORKER_RESTARTED")

\* C7: after the k-th failed tick in a row (k below the maximum) the next tick
\* is scheduled after min(1000 * 2^k, 300000) ms, which grows strictly over
\* the first three failures; after a successful tick retryCount is 0 and the
\* next tick is scheduled after 15000 ms.
C7_BackoffDelays ==
    /\ (Posted(outbox, "WORKER_ERROR") /\ ~Posted(outbox, "WORKER_RESTARTED")) =>
          /\ failStreak \in 1..(maxRetries - 1)
          /\ \E t \in timers :
                /\ timers = {t}
                /\ intervalId = t.id
                /\ t.delay = Min(baseRetryDelay * 2^failStreak, MaxBackoffDelay)
                /\ failStreak \in 2..3 =>
                      t.delay > Min(baseRetryDelay * 2^(failStreak - 1), MaxBackoffDelay)
    /\ Posted(outbox, "WORKER_HEARTBEAT") =>
          /\ retryCount = 0
          /\ \E t \in timers : timers = {t} /\ intervalId = t.id /\ t.delay = checkInterval

\* the third failed tick in a row has just been handled
C7_Witness == Posted(outbox, "WORKER_ERROR") /\ failStreak = 3

\* C8: the first UPDATE_EVENTS marks every reminder of its list whose time is
\* more than 2 minutes past as checked and posts nothing; no key it marked is
\* in any REMINDERS_TRIGGERED message afterwards.
C8_FirstUpdateBackfill ==
    [][/\ (~updated /\ updated') =>
             /\ \A k \in KeysOf(events') : now - FireTime(k) > PastThreshold =>
                                               k \in checkedReminders'
             /\ outbox' = <<>>
       /\ Emitted(outbox') \cap backfilled' = {}]_vars

\* a tick has just succeeded with a key of the first backfill in the working
\* set and not in checkedReminders (cleared since)
C8_Witness ==
    /\ Posted(outbox, "WORKER_HEARTBEAT")
    /\ \E k \in backfilled \cap KeysOf(events) : k \notin checkedReminders

\* C9: an UPDATE_EVENTS that is not the first one adds no key to
\* checkedReminders.
C9_BackfillOnlyFirstCall ==
    [][(updated /\ \E payload \in Payloads : UpdateEvents(payload)) =>
          checkedReminders' \subseteq checkedReminders]_vars

C11_WindowInclusive ==
    [][Posted(outbox', "WORKER_HEARTBEAT") =>
          \A k \in KeysOf(events) :
              k \in Emitted(outbox') <=>
                  /\ k \notin checkedReminders
                  /\ k \notin dismissedReminders
                  /\ now - FireTime(k) >= 0
                  /\ now - FireTime(k) <= TriggerWindow]_vars

\* a tick has just emitted a reminder whose time is exactly the window's
\* length in the past
C11_Witness ==
    /\ Posted(outbox, "WORKER_HEARTBEAT")
    /\ \E k \in Emitted(outbox) : now - FireTime(k) = TriggerWindow

\* the elements of a list
Elements(list) == {list[i] : i \in 1..Len(list)}

\* the SYNC_COMPLETED messages of ob
Completions(ob) == {ob[i] : i \in {j \in 1..Len(ob) : ob[j].type = "SYNC_COMPLETED"}}

\* C12: when the fetch of a source of a batch ends, whether it succeeded or
\* failed (HTTP status not ok, or an exception), one entry for that source is
\* added to the results, with success false for a failure; the batch goes on
\* with the next source, or, after the last one, posts SYNC_COMPLETED with
\* the results, leaves retryCount 0 and schedules the next tick after the
\* normal interval; no SYNC_ERROR is posted and retryCount is not
\* incremented.  retryCount is incremented only in a step that posts
\* SYNC_ERROR, the report of an exception outside the per-source handling.
C12_BatchIsolation ==
    [][/\ \A i \in 1..Len(syncBatches), outcome \in FetchOutcomes :
            (SyncFetched(i, outcome) /\ NoCalendar \notin Elements(syncBatches[i].list)) =>
               LET b == syncBatches[i]
                   entry == [calendar |-> b.list[b.pos].name, success |-> (outcome = "ok")]
                   results == Append(b.results, entry)
               IN /\ ~Posted(syncOutbox', "SYNC_ERROR")
                  /\ syncRetryCount' <= syncRetryCount
                  /\ IF b.pos < Len(b.list)
                     THEN /\ syncOutbox' = <<>>
                          /\ syncRetryCount' = syncRetryCount
                          /\ syncTimers' = syncTimers
                          /\ \E j \in 1..Len(syncBatches') :
                                /\ syncBatches'[j].list = b.list
                                /\ syncBatches'[j].pos = b.pos + 1
                                /\ syncBatches'[j].results = results
                     ELSE /\ \E m \in Completions(syncOutbox') :
                                /\ m.results = results
                                /\ m.errorCount =
                                      Cardinality({k \in 1..Len(results) : ~results[k].success})
                          /\ syncRetryCount' = 0
                          /\ syncIsRunning =>
                                \E t \in syncTimers' \ syncTimers :
                                    t.delay = syncInterval /\ syncIntervalId' = t.id
       /\ syncRetryCount' > syncRetryCount => Posted(syncOutbox', "SYNC_ERROR")]_vars

\* a batch over three sources has just completed in which the second source
\* alone failed: one error entry, two success entries, retryCount 0
C12_Witness ==
    \E m \in Completions(syncOutbox) :
        /\ Len(m.results) = 3
        /\ ~m.results[2].success /\ m.results[1].success /\ m.results[3].success
        /\ m.errorCount = 1 /\ m.successCount = 2
        /\ syncRetryCount = 0

\* C13: the TRIGGER_IMMEDIATE_SYNC command and the batch it starts leave the
\* pending tick timers as they were: none cancelled, none created.
C13_TriggerLeavesTimers ==
    [][(\/ TriggerImmediateSync
        \/ \E i \in 1..Len(syncBatches), outcome \in FetchOutcomes :
              SyncFetched(i, outcome) /\ syncBatches[i].origin = "trigger")
          => syncTimers' = syncTimers]_vars

\* C14: at most one execution of the tick logic of an engine is in progress
\* at any time: no two executions of syncCalendars are suspended at a fetch
\* together.
C14_NoOverlappingBatches == Len(syncBatches) <= 1

\* C15: a batch over a list of n sources posts SYNC_COMPLETED exactly once,
\* in the step in which the fetch of its last source ends and in no other
\* step; the message has n result entries, the k-th for the k-th source, and
\* successCount + errorCount = n.
C15_OneCompletionPerBatch ==
    [][/\ \A i \in 1..Len(syncBatches), outcome \in FetchOutcomes :
            (SyncFetched(i, outcome) /\ NoCalendar \notin Elements(syncBatches[i].list)) =>
               LET b == syncBatches[i]
                   n == Len(b.list)
                   posted == {j \in 1..Len(syncOutbox') :
                                 syncOutbox'[j].type = "SYNC_COMPLETED"}
               IN IF b.pos = n
                  THEN /\ Cardinality(posted) = 1
                       /\ \A j \in posted :
                             /\ Len(syncOutbox'[j].results) = n
                             /\ \A k \in 1..n :
                                   syncOutbox'[j].results[k].calendar = b.list[k].name
                             /\ syncOutbox'[j].successCount + syncOutbox'[j].errorCount = n
                       /\ Len(syncBatches') = Len(syncBatches) - 1
                  ELSE posted = {}
       /\ Completions(syncOutbox') # {} =>
             \E i \in 1..Len(syncBatches), outcome \in FetchOutcomes :
                 SyncFetched(i, outcome) /\ syncBatches[i].pos = Len(syncBatches[i].list)]_vars

\* a batch over three sources has just completed with every source failed
C15_Witness ==
    \E m \in Completions(syncOutbox) :
        Len(m.results) = 3 /\ m.errorCount = 3 /\ m.successCount = 0

\* the fields of the reminder engine apart from the messages just posted
ReminderFields == <<events, checkedReminders, dismissedReminders, retryCount, intervalId,
                    isRunning, timers, cooldowns>>

\* the fields of the sync scheduler apart from the messages just posted
SyncFields == <<calendars, syncRetryCount, syncIntervalId, syncIsRunning, syncTimers,
                syncCooldowns, syncBatches>>

\* C16: in both engines the start command changes no field and sets no timer
\* when the engine is running; when it is stopped it sets running and sets
\* exactly one tick timer, cancelling none and changing nothing else.
C16_StartIdempotent ==
    [][/\ StartWorker =>
             IF isRunning
             THEN UNCHANGED ReminderFields
             ELSE /\ isRunning'
                  /\ timers \subseteq timers'
                  /\ \E t \in timers' \ timers :
                        /\ timers' = timers \cup {t}
                        /\ intervalId' = t.id
                        /\ t.delay = IF retryCount > 0
                                      THEN Min(baseRetryDelay * 2^retryCount, MaxBackoffDelay)
                                      ELSE checkInterval
                  /\ UNCHANGED <<events, checkedReminders, dismissedReminders, retryCount,
                                 cooldowns>>
       /\ StartSyncWorker =>
             IF syncIsRunning
             THEN UNCHANGED SyncFields
             ELSE /\ syncIsRunning'
                  /\ syncTimers \subseteq syncTimers'
                  /\ \E t \in syncTimers' \ syncTimers :
                        /\ syncTimers' = syncTimers \cup {t}
                        /\ syncIntervalId' = t.id
                        /\ t.delay = syncInterval
                  /\ UNCHANGED <<calendars, syncRetryCount, syncCooldowns, syncBatches>>]_vars

\* both engines were stopped and started again: the reminder engine after a
\* failed tick (its new timer has the backoff delay, and no tick has run
\* since), the sync scheduler with a restart timer pending
C16_Witness ==
    /\ ~hostStopped /\ isRunning /\ retryCount > 0 /\ outbox = <<>>
    /\ \E t \in timers : t.remaining = t.delay /\ intervalId = t.id
    /\ ~syncHostStopped /\ syncIsRunning /\ syncCooldowns > 0 /\ syncTimers # {}

\* the ordered table of the offset parser: pattern, offset in minutes
PatternTable ==
    <<[pattern |-> Pat15Minutes, offset |-> 15],
      [pattern |-> Pat30Minutes, offset |-> 30],
      [pattern |-> Pat5Minutes, offset |-> 5],
      [pattern |-> Pat2Minutes, offset |-> 2],
      [pattern |-> Pat1Minute, offset |-> 1],
      [pattern |-> Pat1Hour, offset |-> 60],
      [pattern |-> Pat1Day, offset |-> 1440]>>

\* the rows of the table whose pattern occurs in the text
Matches(text) ==
    {i \in 1..Len(PatternTable) : Includes(Chars(text), PatternTable[i].pattern)}

\* the offset of the first row that occurs in the text, 0 when none does
FirstMatch(text) ==
    IF Matches(text) = {} THEN 0
    ELSE PatternTable[CHOOSE i \in Matches(text) : \A j \in Matches(text) : i <= j].offset

\* the offset a parser gave for the label, 0 when it gave none
OffsetBy(p) == IF computed[p] = <<>> THEN 0 ELSE computed[p][1].offsetMinutes

\* C17: the offset parser (lib/reminder-utils.ts, and its copy in the
\* worker) gives for a label the offset of the first row of the ordered table
\* whose pattern occurs in the label, and nothing when no row occurs:
\* '30 minutes before' 30, '1 day before' 1440, 'no idea' nothing,
\* '15 minutes before' 15, '1 minute before' 1.
C17_ParserOrderedTable ==
    \A p \in {"utils", "worker"} \cap parsedBy :
        /\ Len(computed[p]) <= 1
        /\ (computed[p] = <<>>) <=> (FirstMatch(label) = 0)
        /\ OffsetBy(p) = FirstMatch(label)
        /\ computed[p] # <<>> => computed[p][1].text = label
        /\ label = "30 minutes before" => OffsetBy(p) = 30
        /\ label = "1 day before" => OffsetBy(p) = 1440
        /\ label = "no idea" => computed[p] = <<>>
        /\ label = "15 minutes before" => OffsetBy(p) = 15
        /\ label = "1 minute before" => OffsetBy(p) = 1

\* both copies of the parser have parsed '15 minutes before', in which the
\* shorter pattern '5 minutes' occurs as well
C17_Witness ==
    /\ {"utils", "worker"} \subseteq parsedBy
    /\ label = "15 minutes before"
    /\ Cardinality(Matches(label)) = 2
    /\ OffsetBy("utils") = 15 /\ OffsetBy("worker") = 15

\* C18: when an exception is raised in a tick of the sync scheduler, the
\* handler posts SYNC_ERROR or SYNC_WORKER_RESTARTED and, while the engine is
\* running, leaves a tick timer or a restart timer pending.
C18_TickErrorsReported ==
    syncThrew =>
        /\ Posted(syncOutbox, "SYNC_ERROR") \/ Posted(syncOutbox, "SYNC_WORKER_RESTARTED")
        /\ syncIsRunning => (syncTimers # {} \/ syncCooldowns > 0)

\* C19: the reminder time the worker computes for a label, in either
\* revision, is the start time less the offset the offset parser
\* (lib/reminder-utils.ts) gives for the label, and the worker computes none
\* for a label the parser rejects.
C19_FireTimeUsesParserOffset ==
    \A p \in {"worker", "inline"} \cap parsedBy :
        IF UtilsOffset(label) = 0
        THEN computed[p] = <<>>
        ELSE /\ Len(computed[p]) = 1
             /\ computed[p][1].reminderTime = startTime - UtilsOffset(label) * MsPerMinute

\* C20: no step removes a key from dismissedReminders.
C20_DismissedNeverShrinks ==
    [][dismissedReminders \subseteq dismissedReminders']_vars

\* the host has just restarted the stopped engine, after a clear, and every
\* key ever dismissed is still dismissed
C20_Witness ==
    /\ everDismissed # {}
    /\ everDismissed \subseteq dismissedReminders
    /\ Posted(outbox, "WORKER_RESTARTED") /\ ~Posted(outbox, "WORKER_ERROR")
    /\ hostStopped /\ updated

\* C21: a step removes a key from checkedReminders only when it is the
\* CLEAR_CHECKED_REMINDERS command or a restart (by the host's command or by
\* the failures reaching the maximum); a tick that does not restart, an
\* update (also one that removes the event of a key), a dismiss, stop and
\* start remove none.
C21_FiredKeptUnlessCleared ==
    [][(~ClearCheckedReminders /\ ~Posted(outbox', "WORKER_RESTARTED")) =>
          checkedReminders \subseteq checkedReminders']_vars

\* a key a tick emitted is still marked although its event is gone from the
\* working set, and the engine went through a stop since
C21_Witness ==
    /\ updated /\ hostStopped
    /\ \E k \in checkedReminders \ KeysOf(events) :
          emitCount[k] = 1 /\ k \notin everDismissed /\ k \notin backfilled

\* C22: a key enters checkedReminders only in a step that surfaces it to the
\* host in a REMINDERS_TRIGGERED message, in an UPDATE_EVENTS (the backfill)
\* or in the DISMISS_REMINDER of that key; so a tick that fails leaves no key
\* marked that it did not surface.
C22_FiredKeysWereSurfaced ==
    [][\A k \in checkedReminders' \ checkedReminders :
          \/ k \in Emitted(outbox')
          \/ \E payload \in Payloads : UpdateEvents(payload)
          \/ DismissReminder(k)]_vars

\* the offset the ordered table gives each label, 0 for none
TableOffset == [text \in Labels |-> FirstMatch(text)]

\* C23: UPDATE_EVENTS with list E leaves the working set with exactly the
\* events of E, in order, each with the reminders of its labels that the
\* parser recognises; a tick emits reminders of events of the working set
\* only, so an event that the last update left out is not emitted, also when
\* its reminder is due and its key is neither fired nor dismissed.
C23_WorkingSetReplaced ==
    [][/\ \A payload \in ListPayloads : UpdateEvents(payload) =>
             /\ Len(events') = Len(payload)
             /\ \A i \in 1..Len(payload) :
                   /\ events'[i].id = payload[i].id
                   /\ events'[i].startTime = payload[i].startTime
                   /\ events'[i].reminders = payload[i].reminders
                   /\ events'[i].parsedReminders =
                         SelectSeq([j \in 1..Len(payload[i].reminders) |->
                                       [text |-> payload[i].reminders[j],
                                        offsetMinutes |-> TableOffset[payload[i].reminders[j]]]],
                                   LAMBDA r : r.offsetMinutes # 0)
       /\ \A i \in TriggeredMsgs(outbox') : \A j \in 1..Len(outbox'[i].payload) :
             /\ outbox'[i].payload[j].event \in Elements(events)
             /\ outbox'[i].payload[j].id \in KeysOf(events)]_vars

\* a tick has just succeeded without emitting a key that is due and neither
\* fired nor dismissed: the key was emitted once and un-marked by a clear,
\* and an update has since removed its event from the working set
C23_Witness ==
    /\ Posted(outbox, "WORKER_HEARTBEAT")
    /\ \E k \in armed \ KeysOf(events) :
          Due(k) /\ k \notin checkedReminders /\ k \notin dismissedReminders

\* the WORKER_HEARTBEAT messages of ob
Heartbeats(ob) == {i \in 1..Len(ob) : ob[i].type = "WORKER_HEARTBEAT"}

\* C24: a tick that succeeds (posts no WORKER_ERROR) posts exactly one
\* WORKER_HEARTBEAT, whether or not it emitted a reminder, with the time of
\* the tick, the number of events of the working set and the size of
\* checkedReminders after the keys this tick added; a tick that fails posts
\* no heartbeat, and no other handler posts one.
C24_HeartbeatPerTick ==
    [][IF \E t \in timers, fault \in Faults, throwAt \in 0..Len(Slots(events)) :
              Tick(t, fault, throwAt)
       THEN IF Posted(outbox', "WORKER_ERROR")
            THEN Heartbeats(outbox') = {}
            ELSE /\ Cardinality(Heartbeats(outbox')) = 1
                 /\ \A i \in Heartbeats(outbox') :
                       /\ outbox'[i].timestamp = now
                       /\ outbox'[i].eventsCount = Len(events)
                       /\ outbox'[i].checkedCount =
                             Cardinality(checkedReminders \cup Emitted(outbox'))
                       /\ outbox'[i].checkedCount = Cardinality(checkedReminders')
       ELSE Heartbeats(outbox') = {}]_vars

\* a tick has just emitted a reminder and its heartbeat counts the key
C24_Witness ==
    /\ Emitted(outbox) # {}
    /\ \E i \in Heartbeats(outbox) :
          outbox[i].checkedCount >= 2 /\ outbox[i].eventsCount = 2

\* C25: every tick that succeeds posts exactly one REMINDERS_TRIGGERED
\* message, also when no reminder is newly due.
C25_OneBatchPerTick ==
    [][Posted(outbox', "WORKER_HEARTBEAT") =>
          Cardinality(TriggeredMsgs(outbox')) = 1]_vars

\* the keys of the working set that are newly due at the clock's time
NewlyDue == {k \in KeysOf(events) : Due(k) /\ k \notin checkedReminders
                                             /\ k \notin dismissedReminders}

\* C25, amended: a tick that succeeds posts one REMINDERS_TRIGGERED message,
\* before the heartbeat, with the newly due reminders when there is one, and
\* no REMINDERS_TRIGGERED message when there is none.
C25_BatchWhenNonEmpty ==
    [][Posted(outbox', "WORKER_HEARTBEAT") =>
          IF NewlyDue = {}
          THEN TriggeredMsgs(outbox') = {}
          ELSE /\ TriggeredMsgs(outbox') = {1}
               /\ Emitted(outbox') = NewlyDue
               /\ Len(outbox'[1].payload) = Cardinality(NewlyDue)]_vars

\* a tick over a working set with events has just succeeded with no
\* reminder newly due and has posted the heartbeat alone
C25_Witness ==
    /\ Posted(outbox, "WORKER_HEARTBEAT")
    /\ events # <<>>
    /\ TriggeredMsgs(outbox) = {}
    /\ Len(outbox) = 1

\* C26: the nextRetryIn of a WORKER_ERROR message is the delay of the tick
\* timer the failed tick leaves pending, the only one, and so the time after
\* which the next tick runs; also for the failure that reaches the maximum.
C26_ReportedDelayIsActual ==
    [][\A i \in 1..Len(outbox') : outbox'[i].type = "WORKER_ERROR" =>
          \E t \in timers' :
              /\ timers' = {t}
              /\ t.id = intervalId'
              /\ t.remaining = t.delay
              /\ t.delay = outbox'[i].nextRetryIn]_vars

\* the reminders of the working set evs with the key each is expected to
\* have: event id, label, start time less the offset
Expected(evs) ==
    UNION {{[event |-> evs[i].id, text |-> evs[i].parsedReminders[j].text,
             fireTime |-> evs[i].startTime
                             - evs[i].parsedReminders[j].offsetMinutes * MsPerMinute] :
               j \in 1..Len(evs[i].parsedReminders)} : i \in 1..Len(evs)}

ExpectedKey(x) == <<x.event, x.text, x.fireTime>>

\* C27: an update that changes the start time of an event leaves
\* checkedReminders and dismissedReminders as they were, the key of the old
\* start time included; the reminder has a key with the new fire time, and a
\* tick that succeeds while it is due emits it under that key unless that
\* very key is marked or dismissed, whatever other keys of the same event and
\* label are.
C27_EditedStartTimeNewKey ==
    [][/\ \A payload \in ListPayloads :
             (UpdateEvents(payload) /\ events # <<>>) =>
                 /\ checkedReminders' = checkedReminders
                 /\ dismissedReminders' = dismissedReminders
       /\ Posted(outbox', "WORKER_HEARTBEAT") =>
             \A x \in Expected(events) :
                 (/\ now - x.fireTime >= 0 /\ now - x.fireTime <= TriggerWindow
                  /\ ExpectedKey(x) \notin checkedReminders
                  /\ ExpectedKey(x) \notin dismissedReminders) =>
                     \E i \in TriggeredMsgs(outbox') : \E j \in 1..Len(outbox'[i].payload) :
                         /\ outbox'[i].payload[j].event.id = x.event
                         /\ outbox'[i].payload[j].reminderText = x.text
                         /\ outbox'[i].payload[j].reminderTime = x.fireTime
                         /\ outbox'[i].payload[j].id = ExpectedKey(x)]_vars

\* a tick has just emitted the reminder of the event with the edited start
\* time while the key of its old start time, emitted earlier and since
\* dismissed, is in checkedReminders and in dismissedReminders
C27_Witness ==
    /\ Posted(outbox, "WORKER_HEARTBEAT")
    /\ \E k \in Emitted(outbox) : \E o \in checkedReminders \cap dismissedReminders :
          /\ o[1] = k[1] /\ o[2] = k[2] /\ o[3] # k[3]
          /\ emitCount[o] = 1
          /\ o \notin KeysOf(events)

\* C28: no key is twice in the REMINDERS_TRIGGERED messages of a tick, also
\* when the working set has the key more than once (a label entered twice,
\* an event listed twice): a tick that succeeds emits a newly due key once;
\* and no tick emits a key that is marked, whatever updates came since it was
\* marked.
C28_NoDuplicateInBatch ==
    [][/\ \A k \in KnownKeys : Occurrences(outbox', k) <= 1
       /\ Emitted(outbox') \cap checkedReminders = {}
       /\ Posted(outbox', "WORKER_HEARTBEAT") =>
             \A k \in NewlyDue : Occurrences(outbox', k) = 1]_vars

\* a tick over a working set that holds a key twice has just emitted it, once
C28_Witness ==
    /\ Posted(outbox, "WORKER_HEARTBEAT")
    /\ Len(Slots(events)) > Cardinality(KeysOf(events))
    /\ \E k \in Emitted(outbox) : Occurrences(outbox, k) = 1 /\ emitCount[k] = 1

\* C29: STOP_SYNC_WORKER leaves a batch that awaits a fetch as it is; after
\* a stop that came while a batch was in flight, and until the host's start
\* command, the batch goes on source by source, posts SYNC_COMPLETED after
\* its last source and sets no tick timer, and no tick runs.
C29_StopLetsBatchFinish ==
    [][/\ StopSyncWorker => syncBatches' = syncBatches
       /\ syncStoppedInFlight =>
             /\ \A i \in 1..Len(syncBatches), outcome \in FetchOutcomes :
                   (SyncFetched(i, outcome)
                      /\ NoCalendar \notin Elements(syncBatches[i].list)) =>
                       IF syncBatches[i].pos = Len(syncBatches[i].list)
                       THEN /\ Completions(syncOutbox') # {}
                            /\ syncTimers' = syncTimers
                       ELSE /\ Len(syncBatches') = Len(syncBatches)
                            /\ syncOutbox' = <<>>
             /\ ~(\E t \in syncTimers : SyncTick(t))]_vars

\* C30: a batch-level failure that is not the third in a row leaves
\* retryCount at the number of failures and sets the next tick after
\* 10000 * 2^retryCount ms (20 s, 40 s); the third restarts: retryCount is 0,
\* SYNC_WORKER_RESTARTED is posted and the cooldown timer is set and no tick
\* timer; when a cooldown ends after that and the scheduler was not stopped,
\* the scheduler is running with a tick pending or a batch in flight.
C30_SyncRestartResumes ==
    [][/\ Posted(syncOutbox', "SYNC_ERROR") =>
             LET rc == syncRetryCount + 1
                 restarted == Posted(syncOutbox', "SYNC_WORKER_RESTARTED")
             IN IF rc >= syncMaxRetries
                THEN /\ restarted
                     /\ syncRetryCount' = 0
                     /\ syncCooldowns' = syncCooldowns + 1
                     /\ syncTimers' = syncTimers
                ELSE /\ ~restarted
                     /\ syncRetryCount' = rc
                     /\ syncCooldowns' = syncCooldowns
                     /\ syncIsRunning =>
                           \E t \in syncTimers' \ syncTimers :
                               /\ t.delay = syncBaseRetryDelay * 2^rc
                               /\ t.delay \in {20000, 40000}
       /\ (SyncCooldown /\ syncFailRestart /\ ~syncHostStopped) =>
             /\ syncIsRunning'
             /\ syncTimers' # {} \/ syncBatches' # <<>>]_vars

\* the suspended executions apart from the i-th
RemoveAt(batches, i) == SubSeq(batches, 1, i - 1) \o SubSeq(batches, i + 1, Len(batches))

\* execution b awaits the fetch of the source at b.pos, and the fetch of every
\* source before it has ended and left its entry, in the order of the list
AwaitsOneInOrder(b) ==
    /\ b.pos \in 1..Len(b.list)
    /\ Len(b.results) = b.pos - 1
    /\ \A k \in 1..Len(b.results) : b.results[k].calendar = b.list[k].name

\* C31: a batch has one request in flight, the one for the source it is at,
\* and it is issued after the requests for all sources before it in the list
\* have ended, each leaving its entry in list order.  A step adds at most one
\* request to those in flight, and only for the first source of a batch that
\* begins; the request for a later source takes the place of the one of the
\* same batch that ended in this step.
C31_SequentialWithinBatch ==
    [][/\ \A j \in 1..Len(syncBatches') : AwaitsOneInOrder(syncBatches'[j])
       /\ Len(syncBatches') <= Len(syncBatches) + 1
       /\ Len(syncBatches') = Len(syncBatches) + 1 =>
             \E j \in 1..Len(syncBatches') :
                 /\ syncBatches'[j].pos = 1
                 /\ RemoveAt(syncBatches', j) = syncBatches
       /\ (Len(syncBatches') = Len(syncBatches) /\ syncBatches' # syncBatches) =>
             \E i \in 1..Len(syncBatches), j \in 1..Len(syncBatches') :
                 /\ RemoveAt(syncBatches', j) = RemoveAt(syncBatches, i)
                 /\ syncBatches'[j].list = syncBatches[i].list
                 /\ syncBatches'[j].pos = syncBatches[i].pos + 1
       /\ Len(syncBatches') < Len(syncBatches) =>
             \E i \in 1..Len(syncBatches) :
                 syncBatches' = RemoveAt(syncBatches, i)]_vars

\* two batches are in flight, one at its third source with the entries of
\* the first two, a failure among them, the other at its first source
C31_Witness ==
    \E i, j \in 1..Len(syncBatches) :
        /\ syncBatches[i].pos = 3 /\ Len(syncBatches[i].results) = 2
        /\ ~syncBatches[i].results[1].success
        /\ syncBatches[j].pos = 1

\* C32: a tick that finds the list of sources empty begins no batch and
\* issues no request, posts nothing (no SYNC_COMPLETED, no SYNC_ERROR) and
\* leaves retryCount and the list alone; when the scheduler is running it
\* sets one timer for the next tick, with the delay scheduleNextSync computes
\* from retryCount, and keeps its handle; when it is not, it sets none.  Only a call of
\* syncCalendars with the list empty is such a tick.
C32_EmptyTickReschedules ==
    [][/\ \A t \in syncTimers :
            (calendars = <<>> /\ SyncTick(t)) =>
               /\ syncSkipped'
               /\ syncBatches' = syncBatches
               /\ syncOutbox' = <<>>
               /\ syncRetryCount' = syncRetryCount /\ calendars' = calendars
               /\ syncIsRunning' = syncIsRunning
               /\ IF syncIsRunning
                  THEN \E n \in syncTimers' :
                          /\ syncTimers' = (syncTimers \ {t}) \cup {n}
                          /\ n \notin syncTimers \ {t}
                          /\ n.delay = SyncDelay(syncRetryCount)
                          /\ syncIntervalId' = n.id
                  ELSE syncTimers' = syncTimers \ {t}
       /\ syncSkipped' =>
             /\ calendars = <<>>
             /\ (\E t \in syncTimers : SyncTick(t)) \/ TriggerImmediateSync]_vars

\* a tick found the list empty while another tick was pending: two ticks are
\* pending after it, the scheduler running
C32_Witness ==
    /\ syncSkipped /\ syncIsRunning /\ calendars = <<>>
    /\ syncOutbox = <<>> /\ syncBatches = <<>>
    /\ Cardinality(syncTimers) = 2
    /\ syncIntervalId = 1

\* C34: the reminder engine has at most one tick timer pending, and when it
\* has one, its handle is the one kept in intervalId.
C34_OneTickTimer ==
    /\ Cardinality(timers) <= 1
    /\ \A t \in timers : t.id = intervalId

\* a tick failed while the timer of a restart was pending: one tick is
\* pending, with the backoff delay, and the restart has yet to call
\* startProcessing
C34_Witness ==
    /\ cooldowns # <<>> /\ isRunning /\ retryCount > 0
    /\ \E t \in timers : t.delay = NextDelay(retryCount) /\ t.delay < checkInterval
    /\ Cardinality(timers) = 1

\* C35: the sync scheduler has at most one scheduled-tick timer pending.
C35_OneSyncTimer == Cardinality(syncTimers) <= 1

\* the delays of the ticks of the reminder engine: the normal one and the
\* backoff after one to four failures
TickDelays == {checkInterval} \cup {baseRetryDelay * 2^k : k \in 1..(maxRetries - 1)}

\* C36: retryCount is in 0..4 in every state, a pending tick or not; the
\* delay of every pending tick is 15000, 2000, 4000, 8000 or 16000 ms, never
\* the ceiling of 300000 ms, and the tick set by the last handler has the
\* delay that belongs to retryCount.
C36_DelaysBelowCeiling ==
    /\ retryCount \in 0..(maxRetries - 1)
    /\ TickDelays = {15000, 2000, 4000, 8000, 16000}
    /\ \A t \in timers :
          /\ t.delay \in TickDelays
          /\ t.delay < MaxBackoffDelay
          /\ Ticked => t.delay = NextDelay(retryCount)

\* four ticks in a row have failed: the next is pending after 16000 ms
C36_Witness ==
    /\ retryCount = maxRetries - 1
    /\ Posted(outbox, "WORKER_ERROR")
    /\ \E t \in timers : t.delay = 16000 /\ t.remaining = 16000

\* the names of the sources of a list, in its order
Names(list) == [k \in 1..Len(list) |-> list[k].name]

\* C38: UPDATE_CALENDARS replaces this.calendars and leaves every batch in
\* flight as it is; a batch that goes on after a fetch goes on over the list
\* it began with, whatever this.calendars has become, and the SYNC_COMPLETED
\* it posts has one entry for each source of that list, in its order; a
\* batch that begins takes the list as it is then.
C38_BatchKeepsItsList ==
    [][/\ calendars' # calendars =>
             /\ syncBatches' = syncBatches
             /\ syncOutbox' = <<>>
       /\ Len(syncBatches') = Len(syncBatches) + 1 =>
             \E j \in 1..Len(syncBatches') :
                 /\ RemoveAt(syncBatches', j) = syncBatches
                 /\ syncBatches'[j].list = calendars
                 /\ syncBatches'[j].results = <<>>
       /\ (Len(syncBatches') = Len(syncBatches) /\ syncBatches' # syncBatches) =>
             \E i \in 1..Len(syncBatches), j \in 1..Len(syncBatches') :
                 /\ RemoveAt(syncBatches', j) = RemoveAt(syncBatches, i)
                 /\ syncBatches'[j].list = syncBatches[i].list
                 /\ SubSeq(syncBatches'[j].results, 1, Len(syncBatches[i].results))
                       = syncBatches[i].results
                 /\ Names(SubSeq(syncBatches[i].list, 1, Len(syncBatches'[j].results)))
                       = [k \in 1..Len(syncBatches'[j].results) |->
                             syncBatches'[j].results[k].calendar]
       /\ \A m \in Completions(syncOutbox') :
             \E i \in 1..Len(syncBatches) :
                 /\ syncBatches' = RemoveAt(syncBatches, i)
                 /\ Names(syncBatches[i].list) =
                       [k \in 1..Len(m.results) |-> m.results[k].calendar]]_vars

\* a batch over three sources has completed after the list was replaced by
\* the empty one while it awaited a fetch
C38_Witness ==
    /\ calendars = <<>>
    /\ \E m \in Completions(syncOutbox) :
           /\ Len(m.results) = 3
           /\ m.results[3].calendar = Cal3.name

\* C37: a key that initializePastReminders alone has marked is more than
\* 120000 ms past, so outside the window of this and every later tick; and
\* after every handler the REMINDERS_TRIGGERED messages posted are those an
\* engine without initializePastReminders posts when given the same
\* commands, ticks and faults: the same keys in the same order.
C37_BackfillChangesNoEmission ==
    /\ plainChecked \subseteq checkedReminders
    /\ \A k \in checkedReminders \ plainChecked :
          /\ now - FireTime(k) > PastThreshold
          /\ now - FireTime(k) > TriggerWindow
    /\ Triggered(outbox) = plainTriggered

\* a tick has emitted a reminder, the same in both engines, while the engine
\* holds a key that only initializePastReminders marked
C37_Witness ==
    /\ checkedReminders # plainChecked
    /\ plainTriggered # <<>>
    /\ Emitted(outbox) # {}

\* C33: when the command the host's list change has caused is processed, the
\* engine's working set is the host's current list, the empty list
\* included.
C33_EngineHasHostList ==
    ~Malformed(hostEvents) => events = eventsWithParsedReminders(hostEvents)

\* the workers the host has created and not terminated
LiveWorkers == {workerRef} \cup {retired[i].id : i \in 1..Len(retired)}

\* C39: at most one reminder worker created by the host is live: when the
\* host has created a new one after WORKER_FATAL_ERROR, the one that posted
\* it has been terminated; and no reminder key is delivered to the host by
\* two workers.
C39_OneLiveWorker ==
    /\ Cardinality(LiveWorkers) <= 1
    /\ \A k \in KnownKeys : Cardinality(deliveredBy[k]) <= 1

====
